---- MODULE Spec2Model ----
(***************************************************************************)
(* The OpenGL buffer backend of luminance (backend/gl/buffer.rs) as a      *)
(* state machine: the device's buffer objects and ARRAY_BUFFER binding,    *)
(* the GLState binding cache, the RawBuffer handles the caller holds, the  *)
(* open BufferSlice / BufferSliceMut views and the result of the last      *)
(* call; and the framebuffer backend (backend/framebuffer.rs): its errors, *)
(* their conversions and the framebuffer the trait's functions act on.      *)
(***************************************************************************)
EXTENDS Integers, Sequences, FiniteSets, TLC

\* Bounds of the model.
MaxName == 2
MaxLen == 1
MaxVal == 1
MaxElemSize == 1
MaxSlices == 1
MaxViewName == 1
MaxViews == 2
MaxViewLen == 2
MaxAttachment == 1
MaxSize == 2

\* Buffer names GenBuffers can hand out (0 is the reserved "no buffer" name).
Names == 1..MaxName
\* Element values of a sized element type.
Values == 0..MaxVal
\* mem::size_of::<T>() of the element type; 0 is a zero-sized type.
ElemSizes == 0..MaxElemSize
Lens == 0..MaxLen
\* The buffer names of the specification of several views.
ViewNames == 1..MaxViewName
ViewLens == 0..MaxViewLen

VARIABLES elemSize, gl, state, buffers, slices, ret, framebuffer, outcome

vars == <<elemSize, gl, state, buffers, slices, ret, framebuffer, outcome>>

\* The values an element of size esz can take: a zero-sized type has one.
ElemValues(esz) == IF esz = 0 THEN {0} ELSE Values

\* The slices (&[T]) of length n a caller can pass.
SlicesOf(esz, n) == [1..n -> ElemValues(esz)]

\* mem::size_of::<T>() * len
ByteSize(esz, len) == esz * len

\* The elements held by a byte image of `s`: a zero-sized type occupies no byte.
Image(esz, s) == IF esz = 0 THEN <<>> ELSE s

----------------------------------------------------------------------------
\* The device (the gl:: calls of buffer.rs).

NoObj == [size |-> -1, data |-> <<>>, mapped |-> FALSE]
EmptyObj == [size |-> 0, data |-> <<>>, mapped |-> FALSE]

NullPtr == [kind |-> "null", buf |-> 0]
MapPtr(n) == [kind |-> "map", buf |-> n]
DanglingPtr(n) == [kind |-> "dangling", buf |-> n]

\* The names GenBuffers has handed out and DeleteBuffers has not taken back.
UsedNames(g) == {n \in Names : g.objs[n] # NoObj}

\* gl::GenBuffers(1, &mut buffer) returning the unused name n.
GenBuffers(g, n) == [g EXCEPT !.objs[n] = EmptyObj]

\* gl::BindBuffer(gl::ARRAY_BUFFER, n): an unused name is an error (core profile).
BindBuffer(g, n) ==
  IF n = 0 THEN [g EXCEPT !.bound = 0]
  ELSE IF g.objs[n] = NoObj THEN g
  ELSE [g EXCEPT !.bound = n]

\* gl::BufferData(gl::ARRAY_BUFFER, bytes, data, STREAM_DRAW): a new data store
\* for the bound buffer (any mapping of it ends); an error with nothing bound.
BufferData(g, bytes, data) ==
  IF g.bound = 0 THEN g
  ELSE [g EXCEPT !.objs[g.bound] = [size |-> bytes, data |-> data, mapped |-> FALSE]]

\* gl::MapBuffer(gl::ARRAY_BUFFER, access): NULL when nothing is bound, when the
\* bound buffer is already mapped or has an empty data store, or when the
\* driver cannot map (ok = FALSE).
MapBuffer(g, ok) ==
  LET n == g.bound
      fail == n = 0 \/ g.objs[n].mapped \/ g.objs[n].size = 0 \/ ~ok
  IN  [gl |-> IF fail THEN g ELSE [g EXCEPT !.objs[n].mapped = TRUE],
       ptr |-> IF fail THEN NullPtr ELSE MapPtr(n)]

\* gl::UnmapBuffer(gl::ARRAY_BUFFER): an error when the bound buffer is not mapped.
UnmapBuffer(g) ==
  IF g.bound = 0 THEN g
  ELSE [g EXCEPT !.objs[g.bound].mapped = FALSE]

\* gl::DeleteBuffers(1, &n): the object goes (a mapping with it), its name is
\* unused again and a binding to it reverts to 0; unused names are ignored.
DeleteBuffers(g, n) ==
  IF g.objs[n] = NoObj THEN g
  ELSE [g EXCEPT !.objs[n] = NoObj, !.bound = IF @ = n THEN 0 ELSE @]

\* A pointer as it stands once the device is in state g: a pointer into a
\* mapping that has ended dangles.
PtrIn(g, p) ==
  IF p.kind = "map" /\ ~g.objs[p.buf].mapped THEN DanglingPtr(p.buf) ELSE p

----------------------------------------------------------------------------
\* The binding cache (GLState).

\* GLState::bind_array_buffer(handle, bind) on w = [gl, state].
bind_array_buffer(w, handle, bind) ==
  IF bind = "Forced" \/ w.state.bound_array_buffer # handle
  THEN [gl |-> BindBuffer(w.gl, handle), state |-> [bound_array_buffer |-> handle]]
  ELSE w

\* GLState::unbind_buffer(handle)
unbind_buffer(w, handle) ==
  IF w.state.bound_array_buffer = handle
  THEN bind_array_buffer(w, 0, "Cached")
  ELSE w

----------------------------------------------------------------------------
\* Memory accesses through a raw pointer. Each gives the outcomes the access
\* can have; ub marks undefined behaviour (a crash is then possible too).

\* *ptr.add(i)
Load(g, p, i, esz) ==
  IF p.kind = "map" /\ g.objs[p.buf].mapped /\ esz = 0
  THEN [ub |-> FALSE, vals |-> {0}]
  ELSE IF p.kind = "map" /\ g.objs[p.buf].mapped /\ i < Len(g.objs[p.buf].data)
  THEN [ub |-> FALSE, vals |-> {g.objs[p.buf].data[i + 1]}]
  ELSE [ub |-> TRUE, vals |-> ElemValues(esz)]

\* *ptr.add(i) = x
StoreAt(g, p, i, x, esz) ==
  IF p.kind = "map" /\ g.objs[p.buf].mapped /\ esz = 0
  THEN [ub |-> FALSE, gl |-> g]
  ELSE IF p.kind = "map" /\ g.objs[p.buf].mapped /\ i < Len(g.objs[p.buf].data)
  THEN [ub |-> FALSE, gl |-> [g EXCEPT !.objs[p.buf].data[i + 1] = x]]
  ELSE [ub |-> TRUE, gl |-> g]

\* ptr::copy_nonoverlapping(values.as_ptr(), ptr, bytes)
Copy(g, p, values, bytes, esz) ==
  IF p.kind = "map" /\ g.objs[p.buf].mapped /\ bytes <= g.objs[p.buf].size
  THEN [ub |-> FALSE,
        gl |-> [g EXCEPT !.objs[p.buf].data =
                  [k \in 1..Len(@) |-> IF k * esz <= bytes THEN values[k] ELSE @[k]]]]
  ELSE [ub |-> TRUE, gl |-> g]

\* What a caller can read in a Vec { ptr, len }: the elements ptr points at,
\* anything once the pointer is null or dangles.
VecRead(g, p, len, esz) ==
  IF esz = 0 \/ len = 0
  THEN {[k \in 1..len |-> 0]}
  ELSE IF p.kind = "map" /\ g.objs[p.buf].mapped /\ len <= Len(g.objs[p.buf].data)
  THEN {SubSeq(g.objs[p.buf].data, 1, len)}
  ELSE [1..len -> ElemValues(esz)]

----------------------------------------------------------------------------
\* The result of a call, as the caller sees it, with what the call did on the
\* way: the bind it used, whether MapBuffer gave NULL, whether the pointer was
\* used, and for a returned Vec the pointer it holds.
Result(op, handle, res, val, bind, null, deref, ptr) ==
  [op |-> op, buffer |-> handle, res |-> res, val |-> val,
   bind |-> bind, null |-> null, deref |-> deref, ptr |-> ptr]

\* The process died in undefined behaviour.
Crash(w, op, handle, null) ==
  [gl |-> w.gl, state |-> w.state,
   ret |-> Result(op, handle, "crash", <<>>, "Cached", null, TRUE, "none")]

RawBuffer(handle, bytes, len) == [handle |-> handle, bytes |-> bytes, len |-> len]
NoBuffer == RawBuffer(0, 0, 0)

World(g, st) == [gl |-> g, state |-> st]

----------------------------------------------------------------------------
\* Buffer<T> for GL. Each handler gives the set of outcomes of one call on the
\* world w = [gl, state]; esz is mem::size_of::<T>().

\* new_buffer with the fields of the handle swapped: RawBuffer { bytes: len, len: bytes }.
new_buffer_swapped(w, len, esz, n, junk) ==
  LET bytes == ByteSize(esz, len)
      mode == "Forced"
      b == bind_array_buffer(World(GenBuffers(w.gl, n), w.state), n, mode)
  IN  {[gl |-> BufferData(b.gl, bytes, Image(esz, junk)), state |-> b.state,
        buffer |-> RawBuffer(n, len, bytes),
        ret |-> Result("new_buffer", n, "Ok", <<>>, mode, FALSE, FALSE, "none")]}

\* new_buffer(len): GenBuffers gives the unused name n; the data store is left
\* uninitialized (junk is what it happens to hold).
new_buffer(w, len, esz, n, junk) ==
  LET bytes == ByteSize(esz, len)
      mode == "Forced"
      b == bind_array_buffer(World(GenBuffers(w.gl, n), w.state), n, mode)
  IN  {[gl |-> BufferData(b.gl, bytes, Image(esz, junk)), state |-> b.state,
        buffer |-> RawBuffer(n, bytes, len),
        ret |-> Result("new_buffer", n, "Ok", <<>>, mode, FALSE, FALSE, "none")]}

\* destroy_buffer(buffer)
destroy_buffer(w, buffer) ==
  LET u == unbind_buffer(w, buffer.handle)
  IN  {[gl |-> DeleteBuffers(u.gl, buffer.handle), state |-> u.state,
        ret |-> Result("destroy_buffer", buffer.handle, "Ok", <<>>, "None", FALSE, FALSE, "none")]}

\* len(buffer)
len(buffer) == buffer.len

\* from_slice(slice)
from_slice(w, slice, esz, n) ==
  LET bytes == ByteSize(esz, Len(slice))
      mode == "Cached"
      b == bind_array_buffer(World(GenBuffers(w.gl, n), w.state), n, mode)
  IN  {[gl |-> BufferData(b.gl, bytes, Image(esz, slice)), state |-> b.state,
        buffer |-> RawBuffer(n, bytes, Len(slice)),
        ret |-> Result("from_slice", n, "Ok", <<>>, mode, FALSE, FALSE, "none")]}

\* at(buffer, i)
at(w, buffer, i, esz) ==
  IF i >= buffer.len
  THEN {[gl |-> w.gl, state |-> w.state,
         ret |-> Result("at", buffer.handle, "None", <<>>, "None", FALSE, FALSE, "none")]}
  ELSE LET mode == "Cached"
           b == bind_array_buffer(w, buffer.handle, mode)
       IN  UNION {
             LET m == MapBuffer(b.gl, ok)
                 x == Load(m.gl, m.ptr, i, esz)
                 null == m.ptr = NullPtr
             IN  {[gl |-> UnmapBuffer(m.gl), state |-> b.state,
                   ret |-> Result("at", buffer.handle, "Some", <<v>>, mode, null, TRUE, "none")]
                   : v \in x.vals}
                 \cup (IF x.ub THEN {Crash(World(m.gl, b.state), "at", buffer.handle, null)} ELSE {})
             : ok \in BOOLEAN}

\* whole(buffer): the Vec is built on the mapped pointer itself
\* (Vec::from_raw_parts(ptr, len, len)) and the buffer is then unmapped.
whole(w, buffer, esz) ==
  LET mode == "Cached"
      b == bind_array_buffer(w, buffer.handle, mode)
  IN  UNION {
        LET m == MapBuffer(b.gl, ok)
            g == UnmapBuffer(m.gl)
            ptr == PtrIn(g, m.ptr)
        IN  {[gl |-> g, state |-> b.state,
              ret |-> Result("whole", buffer.handle, "Vec", v, mode, m.ptr = NullPtr, FALSE, ptr.kind)]
              : v \in VecRead(g, ptr, buffer.len, esz)}
        : ok \in BOOLEAN}

\* set(buffer, i, x)
set(w, buffer, i, x, esz) ==
  IF i >= buffer.len
  THEN {[gl |-> w.gl, state |-> w.state,
         ret |-> Result("set", buffer.handle, "Overflow", <<i, buffer.len>>, "None", FALSE, FALSE, "none")]}
  ELSE LET mode == "Cached"
           b == bind_array_buffer(w, buffer.handle, mode)
       IN  UNION {
             LET m == MapBuffer(b.gl, ok)
                 s == StoreAt(m.gl, m.ptr, i, x, esz)
                 null == m.ptr = NullPtr
             IN  {[gl |-> UnmapBuffer(s.gl), state |-> b.state,
                   ret |-> Result("set", buffer.handle, "Ok", <<>>, mode, null, TRUE, "none")]}
                 \cup (IF s.ub THEN {Crash(World(m.gl, b.state), "set", buffer.handle, null)} ELSE {})
             : ok \in BOOLEAN}

\* write_whole(buffer, values)
write_whole(w, buffer, values, esz) ==
  LET in_bytes == ByteSize(esz, Len(values))
  IN  IF in_bytes < buffer.bytes
      THEN {[gl |-> w.gl, state |-> w.state,
             ret |-> Result("write_whole", buffer.handle, "TooFewValues",
                            <<Len(values), buffer.len>>, "None", FALSE, FALSE, "none")]}
      ELSE IF in_bytes > buffer.bytes
      THEN {[gl |-> w.gl, state |-> w.state,
             ret |-> Result("write_whole", buffer.handle, "TooManyValues",
                            <<Len(values), buffer.len>>, "None", FALSE, FALSE, "none")]}
      ELSE LET mode == "Cached"
               b == bind_array_buffer(w, buffer.handle, mode)
           IN  UNION {
                 LET m == MapBuffer(b.gl, ok)
                     c == Copy(m.gl, m.ptr, values, in_bytes, esz)
                     null == m.ptr = NullPtr
                 IN  {[gl |-> UnmapBuffer(c.gl), state |-> b.state,
                       ret |-> Result("write_whole", buffer.handle, "Ok", <<>>, mode, null, TRUE, "none")]}
                     \cup (IF c.ub THEN {Crash(World(m.gl, b.state), "write_whole", buffer.handle, null)} ELSE {})
                 : ok \in BOOLEAN}

\* clear(buffer, x): write_whole(buffer, &vec![x; buffer.len])
clear(w, buffer, x, esz) ==
  {[o EXCEPT !.ret.op = "clear"]
    : o \in write_whole(w, buffer, [k \in 1..buffer.len |-> x], esz)}

\* repeat(length, value): new_buffer(length)? then clear(&mut buf, value)?; an Err of
\* clear returns early and the handle is dropped (nothing deletes the buffer).
repeat(w, length, x, esz, n, junk) ==
  UNION {
    {[gl |-> c.gl, state |-> c.state,
      buffer |-> IF c.ret.res = "Ok" THEN o.buffer ELSE NoBuffer,
      ret |-> [c.ret EXCEPT !.op = "repeat"]]
      : c \in clear(World(o.gl, o.state), o.buffer, x, esz)}
    : o \in new_buffer(w, length, esz, n, junk)}

----------------------------------------------------------------------------
\* BufferSliceBackend<T> for GL.

BufferSlice(buffer, ptr) == [buffer |-> buffer, ptr |-> ptr, mut |-> FALSE]
BufferSliceMut(buffer, ptr) == [buffer |-> buffer, ptr |-> ptr, mut |-> TRUE]

\* slice_buffer(buffer)
slice_buffer(w, buffer) ==
  LET mode == "Cached"
      b == bind_array_buffer(w, buffer.handle, mode)
  IN  {LET m == MapBuffer(b.gl, ok)
       IN  [gl |-> m.gl, state |-> b.state,
            slice |-> IF m.ptr = NullPtr THEN <<>> ELSE <<BufferSlice(buffer, m.ptr)>>,
            ret |-> Result("slice_buffer", buffer.handle,
                           IF m.ptr = NullPtr THEN "MapFailed" ELSE "Ok",
                           <<>>, mode, m.ptr = NullPtr, FALSE, "none")]
       : ok \in BOOLEAN}

\* slice_buffer_mut(buffer)
slice_buffer_mut(w, buffer) ==
  LET mode == "Cached"
      b == bind_array_buffer(w, buffer.handle, mode)
  IN  {LET m == MapBuffer(b.gl, ok)
       IN  [gl |-> m.gl, state |-> b.state,
            slice |-> IF m.ptr = NullPtr THEN <<>> ELSE <<BufferSliceMut(buffer, m.ptr)>>,
            ret |-> Result("slice_buffer_mut", buffer.handle,
                           IF m.ptr = NullPtr THEN "MapFailed" ELSE "Ok",
                           <<>>, mode, m.ptr = NullPtr, FALSE, "none")]
       : ok \in BOOLEAN}

\* destroy_buffer_slice(slice)
destroy_buffer_slice(w, slice) ==
  LET mode == "Cached"
      b == bind_array_buffer(w, slice.buffer.handle, mode)
  IN  {[gl |-> UnmapBuffer(b.gl), state |-> b.state,
        ret |-> Result("destroy_buffer_slice", slice.buffer.handle, "Ok", <<>>, mode, FALSE, FALSE, "none")]}

\* destroy_buffer_slice_mut(slice)
destroy_buffer_slice_mut(w, slice) ==
  LET mode == "Cached"
      b == bind_array_buffer(w, slice.buffer.handle, mode)
  IN  {[gl |-> UnmapBuffer(b.gl), state |-> b.state,
        ret |-> Result("destroy_buffer_slice_mut", slice.buffer.handle, "Ok", <<>>, mode, FALSE, FALSE, "none")]}

\* obtain_slice(slice): slice::from_raw_parts(slice.ptr, slice.buffer.len), and
\* what the caller reads in it.
obtain_slice(w, slice, esz) ==
  LET ptr == PtrIn(w.gl, slice.ptr)
  IN  {[gl |-> w.gl, state |-> w.state,
        ret |-> Result("obtain_slice", slice.buffer.handle, "Ok", v, "None", FALSE, TRUE, ptr.kind)]
        : v \in VecRead(w.gl, ptr, slice.buffer.len, esz)}

\* obtain_slice_mut(slice): slice::from_raw_parts_mut(slice.ptr, slice.buffer.len),
\* and the caller storing x at index i < slice.buffer.len of it.
obtain_slice_mut(w, slice, i, x, esz) ==
  LET ptr == PtrIn(w.gl, slice.ptr)
      s == StoreAt(w.gl, ptr, i, x, esz)
  IN  {[gl |-> s.gl, state |-> w.state,
        ret |-> Result("obtain_slice_mut", slice.buffer.handle, "Ok", <<>>, "None", FALSE, TRUE, ptr.kind)]}
      \cup (IF s.ub THEN {Crash(w, "obtain_slice_mut", slice.buffer.handle, FALSE)} ELSE {})

----------------------------------------------------------------------------
\* Framebuffer errors (backend/framebuffer.rs).

\* The errors of the texture backend, opaque here.
TextureErrors == {"TextureError1", "TextureError2"}

\* enum IncompleteReason
IncompleteReasons ==
  {"Undefined", "IncompleteAttachment", "MissingAttachment", "IncompleteDrawBuffer",
   "IncompleteReadBuffer", "Unsupported", "IncompleteMultisample", "IncompleteLayerTargets"}

\* enum FramebufferError { TextureError(TextureError), Incomplete(IncompleteReason) }
TextureError(e) == [variant |-> "TextureError", inner |-> e]
Incomplete(e) == [variant |-> "Incomplete", inner |-> e]
NoError == [variant |-> "None", inner |-> "None"]

\* impl From<TextureError> for FramebufferError wrapping the reason instead.
From_TextureError_as_Incomplete(e) == Incomplete("Undefined")

\* impl From<TextureError> for FramebufferError
From_TextureError(e) == TextureError(e)

\* impl From<IncompleteReason> for FramebufferError
From_IncompleteReason(e) == Incomplete(e)

----------------------------------------------------------------------------
\* The framebuffer the functions of trait Framebuffer act on, and validation.

\* Attachment indices of color textures, and framebuffer sizes.
AttachmentIndices == 0..MaxAttachment
Sizes == 1..MaxSize

Framebuffer(status, color, depth, size) ==
  [status |-> status, color |-> color, depth |-> depth, size |-> size]
NoFramebuffer == Framebuffer("None", {}, FALSE, 0)

\* The result of a framebuffer call: the cause of a failure (a texture error
\* or an incompleteness reason), the error returned and a returned size.
Outcome(op, cause, res, err, val) ==
  [op |-> op, cause |-> cause, res |-> res, err |-> err, val |-> val]

\* new_framebuffer(size, mipmaps, sampler); e is the texture error the creation
\* runs into, "None" without one.
new_framebuffer(size, e) ==
  IF e = "None"
  THEN [framebuffer |-> Framebuffer("Unattached", {}, FALSE, size),
        outcome |-> Outcome("new_framebuffer", e, "Ok", NoError, 0)]
  ELSE [framebuffer |-> NoFramebuffer,
        outcome |-> Outcome("new_framebuffer", e, "Err", From_TextureError(e), 0)]

\* destroy_framebuffer(framebuffer)
destroy_framebuffer(f) ==
  [framebuffer |-> NoFramebuffer,
   outcome |-> Outcome("destroy_framebuffer", "None", "Ok", NoError, 0)]

\* attach_color_texture(framebuffer, texture, attachment_index); e is the error
\* of an invalid texture, "None" for a valid one.
attach_color_texture(f, e, index) ==
  IF e = "None"
  THEN [framebuffer |-> [f EXCEPT !.status = "Attaching", !.color = @ \cup {index}],
        outcome |-> Outcome("attach_color_texture", e, "Ok", NoError, 0)]
  ELSE [framebuffer |-> f,
        outcome |-> Outcome("attach_color_texture", e, "Err", From_TextureError(e), 0)]

\* attach_depth_texture(framebuffer, texture): a second depth texture replaces
\* the first.
attach_depth_texture(f, e) ==
  IF e = "None"
  THEN [framebuffer |-> [f EXCEPT !.status = "Attaching", !.depth = TRUE],
        outcome |-> Outcome("attach_depth_texture", e, "Ok", NoError, 0)]
  ELSE [framebuffer |-> f,
        outcome |-> Outcome("attach_depth_texture", e, "Err", From_TextureError(e), 0)]

\* framebuffer_size(framebuffer)
framebuffer_size(f) ==
  [framebuffer |-> f,
   outcome |-> Outcome("framebuffer_size", "None", "Size", NoError, f.size)]

\* Validation that takes the device's word also without any attachment.
validate_unchecked(f, r) ==
  IF r = "None"
  THEN [framebuffer |-> [f EXCEPT !.status = "Complete"],
        outcome |-> Outcome("validate", r, "Ok", NoError, 0)]
  ELSE [framebuffer |-> [f EXCEPT !.status = "Incomplete"],
        outcome |-> Outcome("validate", r, "Err", From_IncompleteReason(r), 0)]

\* Validation (finalize): no attachment at all is MissingAttachment; otherwise
\* r is the reason the device reports, "None" for a complete framebuffer.
validate(f, r) ==
  LET reason == IF f.color = {} /\ ~f.depth THEN "MissingAttachment" ELSE r
  IN  IF reason = "None"
      THEN [framebuffer |-> [f EXCEPT !.status = "Complete"],
            outcome |-> Outcome("validate", reason, "Ok", NoError, 0)]
      ELSE [framebuffer |-> [f EXCEPT !.status = "Incomplete"],
            outcome |-> Outcome("validate", reason, "Err", From_IncompleteReason(reason), 0)]

----------------------------------------------------------------------------
\* The state machine: a caller making one call after the other.

Init ==
  /\ elemSize \in ElemSizes
  /\ gl = [objs |-> [n \in Names |-> NoObj], bound |-> 0]
  /\ state = [bound_array_buffer |-> 0]
  /\ buffers = [n \in Names |-> NoBuffer]
  /\ slices = <<>>
  /\ ret = Result("init", 0, "Ok", <<>>, "None", FALSE, FALSE, "none")
  /\ framebuffer = NoFramebuffer
  /\ outcome = Outcome("init", "None", "Ok", NoError, 0)

\* No call is made once the process has died.
Alive == ret.res # "crash"

\* The handles the caller holds.
Live == {n \in Names : buffers[n] # NoBuffer}

\* The open views as they stand once the device is in state g.
SlicesIn(g, sl) == [k \in DOMAIN sl |-> [sl[k] EXCEPT !.ptr = PtrIn(g, @)]]

\* sl without its k-th view.
Remove(sl, k) == [j \in 1..(Len(sl) - 1) |-> IF j < k THEN sl[j] ELSE sl[j + 1]]

\* The outcome o of a call that leaves the handles and the set of views alone.
Returns(o) ==
  /\ gl' = o.gl
  /\ state' = o.state
  /\ ret' = o.ret
  /\ slices' = SlicesIn(o.gl, slices)
  /\ UNCHANGED <<elemSize, buffers, framebuffer, outcome>>

NewBuffer(n, length, junk) ==
  /\ Alive
  /\ n \notin UsedNames(gl)
  /\ \E o \in new_buffer(World(gl, state), length, elemSize, n, junk) :
       /\ gl' = o.gl
       /\ state' = o.state
       /\ ret' = o.ret
       /\ buffers' = [buffers EXCEPT ![n] = o.buffer]
       /\ slices' = SlicesIn(o.gl, slices)
       /\ UNCHANGED <<elemSize, framebuffer, outcome>>

FromSlice(n, slice) ==
  /\ Alive
  /\ n \notin UsedNames(gl)
  /\ \E o \in from_slice(World(gl, state), slice, elemSize, n) :
       /\ gl' = o.gl
       /\ state' = o.state
       /\ ret' = o.ret
       /\ buffers' = [buffers EXCEPT ![n] = o.buffer]
       /\ slices' = SlicesIn(o.gl, slices)
       /\ UNCHANGED <<elemSize, framebuffer, outcome>>

DestroyBuffer(h) ==
  /\ Alive
  /\ h \in Live
  /\ \E o \in destroy_buffer(World(gl, state), buffers[h]) :
       /\ gl' = o.gl
       /\ state' = o.state
       /\ ret' = o.ret
       /\ buffers' = [buffers EXCEPT ![h] = NoBuffer]
       /\ slices' = SlicesIn(o.gl, slices)
       /\ UNCHANGED <<elemSize, framebuffer, outcome>>

At(h, i) ==
  /\ Alive
  /\ h \in Live
  /\ \E o \in at(World(gl, state), buffers[h], i, elemSize) : Returns(o)

Whole(h) ==
  /\ Alive
  /\ h \in Live
  /\ \E o \in whole(World(gl, state), buffers[h], elemSize) : Returns(o)

Set(h, i, x) ==
  /\ Alive
  /\ h \in Live
  /\ \E o \in set(World(gl, state), buffers[h], i, x, elemSize) : Returns(o)

WriteWhole(h, values) ==
  /\ Alive
  /\ h \in Live
  /\ \E o \in write_whole(World(gl, state), buffers[h], values, elemSize) : Returns(o)

Clear(h, x) ==
  /\ Alive
  /\ h \in Live
  /\ \E o \in clear(World(gl, state), buffers[h], x, elemSize) : Returns(o)

Repeat(n, length, x, junk) ==
  /\ Alive
  /\ n \notin UsedNames(gl)
  /\ \E o \in repeat(World(gl, state), length, x, elemSize, n, junk) :
       /\ gl' = o.gl
       /\ state' = o.state
       /\ ret' = o.ret
       /\ buffers' = [buffers EXCEPT ![n] = o.buffer]
       /\ slices' = SlicesIn(o.gl, slices)
       /\ UNCHANGED <<elemSize, framebuffer, outcome>>

\* cap bounds the views the caller holds at once.
SliceBuffer(h, cap) ==
  /\ Alive
  /\ h \in Live
  /\ \E o \in slice_buffer(World(gl, state), buffers[h]) :
       /\ Len(slices) + Len(o.slice) <= cap
       /\ gl' = o.gl
       /\ state' = o.state
       /\ ret' = o.ret
       /\ slices' = SlicesIn(o.gl, slices) \o o.slice
       /\ UNCHANGED <<elemSize, buffers, framebuffer, outcome>>

SliceBufferMut(h, cap) ==
  /\ Alive
  /\ h \in Live
  /\ \E o \in slice_buffer_mut(World(gl, state), buffers[h]) :
       /\ Len(slices) + Len(o.slice) <= cap
       /\ gl' = o.gl
       /\ state' = o.state
       /\ ret' = o.ret
       /\ slices' = SlicesIn(o.gl, slices) \o o.slice
       /\ UNCHANGED <<elemSize, buffers, framebuffer, outcome>>

DestroyBufferSlice(k) ==
  /\ Alive
  /\ k \in DOMAIN slices
  /\ ~slices[k].mut
  /\ \E o \in destroy_buffer_slice(World(gl, state), slices[k]) :
       /\ gl' = o.gl
       /\ state' = o.state
       /\ ret' = o.ret
       /\ slices' = SlicesIn(o.gl, Remove(slices, k))
       /\ UNCHANGED <<elemSize, buffers, framebuffer, outcome>>

DestroyBufferSliceMut(k) ==
  /\ Alive
  /\ k \in DOMAIN slices
  /\ slices[k].mut
  /\ \E o \in destroy_buffer_slice_mut(World(gl, state), slices[k]) :
       /\ gl' = o.gl
       /\ state' = o.state
       /\ ret' = o.ret
       /\ slices' = SlicesIn(o.gl, Remove(slices, k))
       /\ UNCHANGED <<elemSize, buffers, framebuffer, outcome>>

ObtainSlice(k) ==
  /\ Alive
  /\ k \in DOMAIN slices
  /\ ~slices[k].mut
  /\ \E o \in obtain_slice(World(gl, state), slices[k], elemSize) : Returns(o)

ObtainSliceMut(k, i, x) ==
  /\ Alive
  /\ k \in DOMAIN slices
  /\ slices[k].mut
  /\ i < slices[k].buffer.len
  /\ \E o \in obtain_slice_mut(World(gl, state), slices[k], i, x, elemSize) : Returns(o)

\* One call, on the buffer names `names`, with lengths and indices in `lens`,
\* holding at most `cap` views.
Call(names, lens, cap) ==
  \/ \E n \in names, length \in lens : \E junk \in SlicesOf(elemSize, length) : NewBuffer(n, length, junk)
  \/ \E n \in names, length \in lens : \E slice \in SlicesOf(elemSize, length) : FromSlice(n, slice)
  \/ \E h \in names : DestroyBuffer(h)
  \/ \E h \in names, i \in lens : At(h, i)
  \/ \E h \in names : Whole(h)
  \/ \E h \in names, i \in lens, x \in ElemValues(elemSize) : Set(h, i, x)
  \/ \E h \in names, length \in lens : \E values \in SlicesOf(elemSize, length) : WriteWhole(h, values)
  \/ \E h \in names : SliceBuffer(h, cap)
  \/ \E h \in names : SliceBufferMut(h, cap)
  \/ \E k \in 1..cap : DestroyBufferSlice(k)
  \/ \E k \in 1..cap : DestroyBufferSliceMut(k)
  \/ \E k \in 1..cap : ObtainSlice(k)
  \/ \E k \in 1..cap, i \in lens, x \in ElemValues(elemSize) : ObtainSliceMut(k, i, x)
  \/ \E h \in names, x \in ElemValues(elemSize) : Clear(h, x)
  \/ \E n \in names, length \in lens, x \in ElemValues(elemSize) :
       \E junk \in SlicesOf(elemSize, length) : Repeat(n, length, x, junk)

\* Every buffer name, one view at a time.
Next == Call(Names, Lens, MaxSlices)

Spec == Init /\ [][Next]_vars

\* One buffer name, longer buffers, several views at a time.
ViewsNext == Call(ViewNames, ViewLens, MaxViews)

SpecViews == Init /\ [][ViewsNext]_vars

----------------------------------------------------------------------------
\* The framebuffer calls of a caller, and the conversions of errors.

\* The outcome o of a framebuffer call.
FramebufferReturns(o) ==
  /\ framebuffer' = o.framebuffer
  /\ outcome' = o.outcome
  /\ UNCHANGED <<elemSize, gl, state, buffers, slices, ret>>

NewFramebuffer(size, e) ==
  /\ framebuffer = NoFramebuffer
  /\ FramebufferReturns(new_framebuffer(size, e))

DestroyFramebuffer ==
  /\ framebuffer # NoFramebuffer
  /\ FramebufferReturns(destroy_framebuffer(framebuffer))

AttachColorTexture(e, index) ==
  /\ framebuffer.status \in {"Unattached", "Attaching"}
  /\ FramebufferReturns(attach_color_texture(framebuffer, e, index))

AttachDepthTexture(e) ==
  /\ framebuffer.status \in {"Unattached", "Attaching"}
  /\ FramebufferReturns(attach_depth_texture(framebuffer, e))

FramebufferSize ==
  /\ framebuffer # NoFramebuffer
  /\ FramebufferReturns(framebuffer_size(framebuffer))

Validate(r) ==
  /\ framebuffer.status \in {"Unattached", "Attaching"}
  /\ FramebufferReturns(validate(framebuffer, r))

\* FramebufferError::from(e) of a texture error, as `?` and .into() call it.
FromTextureError(e) ==
  /\ outcome' = Outcome("from", e, "Err", From_TextureError(e), 0)
  /\ UNCHANGED <<elemSize, gl, state, buffers, slices, ret, framebuffer>>

\* FramebufferError::from(e) of an incompleteness reason.
FromIncompleteReason(e) ==
  /\ outcome' = Outcome("from", e, "Err", From_IncompleteReason(e), 0)
  /\ UNCHANGED <<elemSize, gl, state, buffers, slices, ret, framebuffer>>

FramebufferNext ==
  \/ \E size \in Sizes, e \in TextureErrors \cup {"None"} : NewFramebuffer(size, e)
  \/ DestroyFramebuffer
  \/ \E e \in TextureErrors \cup {"None"}, index \in AttachmentIndices : AttachColorTexture(e, index)
  \/ \E e \in TextureErrors \cup {"None"} : AttachDepthTexture(e)
  \/ FramebufferSize
  \/ \E r \in IncompleteReasons \cup {"None"} : Validate(r)
  \/ \E e \in TextureErrors : FromTextureError(e)
  \/ \E e \in IncompleteReasons : FromIncompleteReason(e)

SpecFramebuffer == Init /\ [][FramebufferNext]_vars

----------------------------------------------------------------------------
\* The elements a buffer of `length` elements of size esz holds in the data
\* store obj.
Elements(obj, length, esz) ==
  IF esz = 0 THEN [k \in 1..length |-> 0]
  ELSE IF length <= Len(obj.data) THEN SubSeq(obj.data, 1, length)
  ELSE obj.data

\* The views open on the buffer named h.
ViewsOf(h) == {k \in DOMAIN slices : slices[k].buffer.handle = h}

----------------------------------------------------------------------------
\* C1: when the device maps the buffer, the Vec whole (readAll) returns holds
\* the buffer's elements in memory of its own: it does not point into the
\* mapped region, which whole itself unmaps before it returns.
C1_WholeReturnsOwnedCopy ==
  (ret.op = "whole" /\ ret.res = "Vec" /\ ~ret.null)
    => /\ ret.ptr = "heap"
       /\ ret.val = Elements(gl.objs[ret.buffer], len(buffers[ret.buffer]), elemSize)

\* C2: write_whole (writeAll) with values.len() # len(buffer) fails with
\* TooFewValues / TooManyValues carrying (values.len(), len(buffer)), for every
\* element size, and leaves the device and the binding cache as they were.
C2_WriteWholeRejectsWrongLength ==
  [][\A h \in Names, length \in Lens : \A values \in SlicesOf(elemSize, length) :
       (WriteWhole(h, values) /\ Len(values) # len(buffers[h]))
         => /\ ret'.res = IF Len(values) < len(buffers[h]) THEN "TooFewValues" ELSE "TooManyValues"
            /\ ret'.val = <<Len(values), len(buffers[h])>>
            /\ UNCHANGED <<gl, state>>]_vars

\* C3: a call whose MapBuffer gave NULL returns the error MapFailed and does
\* not use the pointer.
C3_NullMappingIsReported ==
  ret.null => (ret.res = "MapFailed" /\ ~ret.deref)

\* C4: no mutable view is open together with another view of the same buffer.
C4_MutableViewIsExclusive ==
  \A j, k \in DOMAIN slices :
    (j # k /\ slices[j].buffer.handle = slices[k].buffer.handle)
      => (~slices[j].mut /\ ~slices[k].mut)

\* C5: while a read view is open and mapped on a buffer, a further read view
\* of it can be opened, and closing one of two read views leaves the other
\* mapped.
C5_ReadViewsShare ==
  /\ \A h \in Live :
       (\E k \in ViewsOf(h) : ~slices[k].mut /\ slices[k].ptr = MapPtr(h))
         => \E o \in slice_buffer(World(gl, state), buffers[h]) : o.ret.res = "Ok"
  /\ \A j, k \in DOMAIN slices :
       (j # k /\ ~slices[j].mut /\ ~slices[k].mut
          /\ slices[j].ptr.kind = "map" /\ slices[k].ptr = slices[j].ptr)
         => \A o \in destroy_buffer_slice(World(gl, state), slices[j]) :
              PtrIn(o.gl, slices[k].ptr).kind = "map"

\* C6: the device buffer an open view was opened on is not deleted before the
\* view is closed.
C6_ViewKeepsBufferAlive ==
  \A k \in DOMAIN slices : gl.objs[slices[k].buffer.handle] # NoObj

\* C7: the binding cache never names a buffer that destroy_buffer has deleted.
C7_CacheNamesNoDeletedBuffer ==
  state.bound_array_buffer # 0 => gl.objs[state.bound_array_buffer] # NoObj

\* C8: new_buffer and from_slice (create, createFrom) bind the new name with
\* Bind::Forced; every other call binds with Bind::Cached.
C8_CreationBindsForced ==
  /\ ret.op \in {"new_buffer", "from_slice"} => ret.bind = "Forced"
  /\ ret.op \notin {"new_buffer", "from_slice"} => ret.bind # "Forced"

\* C9: with the device mapping the buffer at each call, write_whole (writeAll)
\* with values.len() = len(buffer) returns Ok and stores values, and a whole
\* (readAll) that follows it returns what was stored.
C9_WriteWholeThenWhole ==
  [][/\ \A h \in Names, length \in Lens : \A values \in SlicesOf(elemSize, length) :
          (WriteWhole(h, values) /\ Len(values) = len(buffers[h]) /\ ~ret'.null)
            => /\ ret'.res = "Ok"
               /\ Elements(gl'.objs[h], Len(values), elemSize) = values
     /\ \A h \in Names :
          (/\ ret.op = "write_whole" /\ ret.res = "Ok" /\ ~ret.null /\ ret.buffer = h
           /\ Whole(h) /\ ~ret'.null)
            => ret'.val = Elements(gl.objs[h], len(buffers[h]), elemSize)]_vars

\* C10: from_slice(s) (createFrom) returns a handle of length s.len(); the
\* upload fills the buffer it has just generated with s and leaves every
\* other buffer as it was.
C10_FromSliceFillsNewBuffer ==
  [][\A n \in Names, length \in Lens : \A slice \in SlicesOf(elemSize, length) :
       FromSlice(n, slice)
         => /\ len(buffers'[n]) = Len(slice)
            /\ gl'.objs[n].size = ByteSize(elemSize, Len(slice))
            /\ gl'.objs[n].data = Image(elemSize, slice)
            /\ \A m \in Names \ {n} : gl'.objs[m] = gl.objs[m]]_vars

\* C11: at (readAt) and set (writeAt) check the index against len(buffer).
\* Out of range, at returns None and set fails with Overflow{index, len}, and
\* the device, the views' mappings and the binding cache stay as they were.
\* In range, at returns Some of the element stored at the index and set
\* returns Ok having changed that element and no other.
C11_IndexedAccessChecksBounds ==
  [][\A h \in ViewNames, i \in ViewLens :
       LET length == len(buffers[h])
           e == Elements(gl.objs[h], length, elemSize)
       IN  /\ (At(h, i) /\ i >= length)
             => (ret'.res = "None" /\ UNCHANGED <<gl, state, slices>>)
           /\ \A x \in ElemValues(elemSize) : (Set(h, i, x) /\ i >= length)
             => /\ ret'.res = "Overflow"
                /\ ret'.val = <<i, length>>
                /\ UNCHANGED <<gl, state, slices>>
           /\ (At(h, i) /\ i < length)
             => /\ ret'.res = "Some"
                /\ Len(e) = length
                /\ ret'.val = <<e[i + 1]>>
           /\ \A x \in ElemValues(elemSize) : (Set(h, i, x) /\ i < length)
             => /\ ret'.res = "Ok"
                /\ Len(e) = length
                /\ Elements(gl'.objs[h], length, elemSize) = [e EXCEPT ![i + 1] = x]]_vars

\* C12: closing a view (destroy_buffer_slice, destroy_buffer_slice_mut) leaves
\* the view's owning buffer bound on the device and unmapped, and changes no
\* other buffer and no contents; a store through a mutable view lands in the
\* owning buffer, so that after the close an at (readAt) of the owning buffer
\* that maps it returns what its data store held at the close.
C12_CloseUnmapsOwningBuffer ==
  [][/\ \A k \in 1..MaxSlices :
          (DestroyBufferSlice(k) \/ DestroyBufferSliceMut(k))
            => LET h == slices[k].buffer.handle
               IN  /\ gl'.bound = h
                   /\ ~gl'.objs[h].mapped
                   /\ gl'.objs[h].data = gl.objs[h].data
                   /\ \A m \in Names \ {h} : gl'.objs[m] = gl.objs[m]
                   /\ (h \in Live /\ buffers[h] = slices[k].buffer /\ len(buffers[h]) > 0)
                        => \A o \in at(World(gl', state'), buffers[h], 0, elemSize) :
                             ~o.ret.null
                               => /\ o.ret.res = "Some"
                                  /\ o.ret.val = SubSeq(Elements(gl.objs[h], 1, elemSize), 1, 1)
     /\ \A k \in 1..MaxSlices, i \in Lens, x \in ElemValues(elemSize) :
          ObtainSliceMut(k, i, x)
            => LET h == slices[k].buffer.handle
                   e == Elements(gl'.objs[h], slices[k].buffer.len, elemSize)
               IN  /\ ret'.res = "Ok"
                   /\ i < Len(e)
                   /\ e[i + 1] = x]_vars

\* C13: repeat(length, x) returns Ok with a handle of that length whose buffer
\* holds length copies of x, so no handle of a buffer that is not completely
\* filled reaches the caller; clear (fill) of any buffer with x returns Ok and
\* leaves the buffer holding len(buffer) copies of x.
C13_RepeatAndClearFill ==
  [][/\ \A n \in ViewNames, length \in ViewLens, x \in ElemValues(elemSize) :
          (\E junk \in SlicesOf(elemSize, length) : Repeat(n, length, x, junk))
            => /\ ret'.res = "Ok"
               /\ len(buffers'[n]) = length
               /\ Elements(gl'.objs[n], length, elemSize) = [k \in 1..length |-> x]
     /\ \A h \in ViewNames, x \in ElemValues(elemSize) :
          Clear(h, x)
            => /\ ret'.res = "Ok"
               /\ Elements(gl'.objs[h], len(buffers[h]), elemSize)
                    = [k \in 1..len(buffers[h]) |-> x]]_vars

C15_ConversionsWrapTheirCause ==
  /\ outcome.cause \in TextureErrors
       => /\ outcome.res = "Err"
          /\ outcome.err.variant = "TextureError"
          /\ outcome.err.inner = outcome.cause
  /\ outcome.cause \in IncompleteReasons
       => /\ outcome.res = "Err"
          /\ outcome.err.variant = "Incomplete"
          /\ outcome.err.inner = outcome.cause
  /\ \A e \in TextureErrors, r \in IncompleteReasons :
       From_TextureError(e) # From_IncompleteReason(r)
  /\ Cardinality(IncompleteReasons) = 8

\* The conversion of the last of the reasons has been made.
C15_Witness ==
  /\ outcome.op = "from"
  /\ outcome.cause = "IncompleteLayerTargets"
  /\ outcome.err = Incomplete("IncompleteLayerTargets")

\* C16: validating a framebuffer that has no color and no depth attachment
\* fails with Incomplete(MissingAttachment) and leaves it Incomplete, whatever
\* the device reports, and an Incomplete framebuffer never becomes Complete.
C16_UnattachedFailsValidation ==
  [][/\ \A r \in IncompleteReasons \cup {"None"} :
          (Validate(r) /\ framebuffer.color = {} /\ ~framebuffer.depth)
            => /\ framebuffer.status = "Unattached"
               /\ outcome'.res = "Err"
               /\ outcome'.err = Incomplete("MissingAttachment")
               /\ framebuffer'.status = "Incomplete"
     /\ framebuffer.status \in {"Unattached", "Incomplete"}
          => framebuffer'.status # "Complete"]_vars

\* A framebuffer without attachments has been validated.
C16_Witness ==
  /\ outcome.op = "validate"
  /\ framebuffer.color = {}
  /\ ~framebuffer.depth
  /\ framebuffer.status = "Incomplete"
  /\ outcome.err = Incomplete("MissingAttachment")

\* C17: the binding cache records the buffer that is bound on the device, and
\* a call that has bound its buffer to allocate, map or unmap returns with
\* that buffer bound on the device.
C17_CacheMatchesDevice ==
  /\ state.bound_array_buffer = gl.bound
  /\ (ret.bind # "None" /\ ret.res # "crash") => gl.bound = ret.buffer

\* C18: no at, set, whole, write_whole or clear (readAt, writeAt, readAll,
\* writeAll, fill), on the view's buffer or on another, ends the mapping an
\* open view points into.
C18_ViewStaysMapped ==
  [][ret'.op \in {"at", "set", "whole", "write_whole", "clear"}
       => \A k \in DOMAIN slices :
            slices[k].ptr.kind = "map" => slices'[k].ptr.kind = "map"]_vars

\* C19: a buffer is mapped on the device only while a view that was opened
\* and not yet closed points into its mapping. So no buffer is mapped once
\* every opened view has been closed, at, set, whole, write_whole and clear
\* leave no mapping of their own behind, and neither does an open that fails
\* with MapFailed.
C19_MapsAndUnmapsBalance ==
  \A n \in Names :
    gl.objs[n].mapped => \E k \in DOMAIN slices : slices[k].ptr = MapPtr(n)
====
